---------------------------- MODULE Spec2Model ----------------------------
(***************************************************************************)
(* Minesweeper AI (src/minesweeper.py): the Sentence constraint, the       *)
(* agent's knowledge base (moves_made, safes, mines, knowledge) and the    *)
(* inference procedure add_knowledge, with the two move selectors.         *)
(*                                                                         *)
(* A cell is a pair <<i, j>>.  A Sentence is a record [cells, count].      *)
(* knowledge is a sequence of sentences: Python's list of Sentence         *)
(* objects, mutated in place.  Python's None is modelled by a record with  *)
(* none = TRUE (known_mines / known_safes) or by the empty sequence (the   *)
(* move selectors' return value).                                          *)
(***************************************************************************)
EXTENDS Integers, Sequences, FiniteSets, TLC

VARIABLES
    height,      \* MinesweeperAI.height (= Minesweeper.height)
    width,       \* MinesweeperAI.width  (= Minesweeper.width)
    board,       \* Minesweeper.mines: the true mine set of the environment
    moves_made,  \* MinesweeperAI.moves_made
    safes,       \* MinesweeperAI.safes
    mines,       \* MinesweeperAI.mines
    knowledge,   \* MinesweeperAI.knowledge: sequence of [cells, count]
    last,        \* the last call: [op, cell, count, ret, raised]
    bad,         \* sentences of knowledge seen during the last call, after a
                 \* mark_mine / mark_safe step, with count outside 0..|cells|
    calls        \* number of mutating calls made so far

vars == <<height, width, board, moves_made, safes, mines, knowledge, last, bad, calls>>
agent == <<moves_made, safes, mines, knowledge>>

(***************************************************************************)
(* Bounds of the model.                                                    *)
(***************************************************************************)
\* Most mines laid on a board.
MaxMines == 2
\* Most probes (add_knowledge calls) of a game of truthful play.
MaxProbes == 3
\* Most calls in a run of arbitrary calls.
MaxCalls == 2
\* Most sentences held by knowledge where the marking primitives start.
MaxSentences == 1
\* Board shapes <<height, width>> of truthful play on a square board.
SquareShapes == {<<1, 1>>, <<2, 2>>, <<3, 3>>}
\* Board shapes of truthful play on a board that is not square.
RectShapes == {<<1, 3>>, <<3, 1>>, <<2, 3>>, <<3, 2>>}
\* Board shapes of the runs of arbitrary calls.
AnyShapes == {<<2, 2>>, <<3, 3>>}

(***************************************************************************)
(* The environment: Minesweeper.                                           *)
(***************************************************************************)
\* MinesweeperAI.__init__: all_cells.
AllCells(h, w) == {<<i, j>> : i \in 0..(h - 1), j \in 0..(w - 1)}

\* Minesweeper.is_mine.
is_mine(b, cell) == cell \in b

\* Minesweeper.nearby_mines, lines 66-74: the cells it counts over, those
\* within one row and column of cell, cell itself left out, in bounds (rows
\* against height, columns against width).
nearby_cells(h, w, cell) ==
    {c \in (((cell[1] - 1)..(cell[1] + 1)) \X ((cell[2] - 1)..(cell[2] + 1))) :
        /\ c # cell
        /\ 0 <= c[1] /\ c[1] < h /\ 0 <= c[2] /\ c[2] < w}

\* Minesweeper.nearby_mines
nearby_mines(b, h, w, cell) ==
    Cardinality({c \in nearby_cells(h, w, cell) : is_mine(b, c)})

(***************************************************************************)
(* Sentence.                                                               *)
(***************************************************************************)
Sentence(cells, count) == [cells |-> cells, count |-> count]

\* Sentence.__eq__
SentenceEq(s, t) == s.cells = t.cells /\ s.count = t.count

\* known_mines with the comparison off by one (len(cells) == count + 1).
known_mines_off_by_one(s) ==
    IF Cardinality(s.cells) = s.count + 1
    THEN [none |-> FALSE, cells |-> s.cells]
    ELSE [none |-> TRUE, cells |-> {}]

\* Sentence.known_mines: a copy of cells, or None.
known_mines(s) ==
    IF Cardinality(s.cells) = s.count
    THEN [none |-> FALSE, cells |-> s.cells]
    ELSE [none |-> TRUE, cells |-> {}]

\* Sentence.known_safes: a copy of cells, or None.
known_safes(s) ==
    IF s.count = 0
    THEN [none |-> FALSE, cells |-> s.cells]
    ELSE [none |-> TRUE, cells |-> {}]

\* Sentence.mark_mine without the test `cell in self.cells`: the cell is
\* discarded and count decremented in every case.
SentenceMarkMineAlways(s, cell) ==
    [cells |-> s.cells \ {cell}, count |-> s.count - 1]

\* Sentence.mark_mine that removes the cell and forgets to decrement count.
SentenceMarkMineKeepCount(s, cell) ==
    IF cell \in s.cells
    THEN [cells |-> s.cells \ {cell}, count |-> s.count]
    ELSE s

\* Sentence.mark_mine
SentenceMarkMine(s, cell) ==
    IF cell \in s.cells
    THEN [cells |-> s.cells \ {cell}, count |-> s.count - 1]
    ELSE s

\* Sentence.mark_safe that decrements count as mark_mine does.
SentenceMarkSafeDecrement(s, cell) ==
    IF cell \in s.cells
    THEN [cells |-> s.cells \ {cell}, count |-> s.count - 1]
    ELSE s

\* Sentence.mark_safe
SentenceMarkSafe(s, cell) ==
    IF cell \in s.cells
    THEN [cells |-> s.cells \ {cell}, count |-> s.count]
    ELSE s

\* The invariant of a sentence: 0 <= count <= |cells|.
SentenceOK(s) == 0 <= s.count /\ s.count <= Cardinality(s.cells)

(***************************************************************************)
(* MinesweeperAI.  The operators below work on a record a of the agent's   *)
(* fields during one call:                                                 *)
(*   moves_made, safes, mines, knowledge : the agent's fields;             *)
(*   obj, objIdx : add_knowledge's local sentence_obj: when objIdx > 0 it  *)
(*       is the object knowledge[objIdx] (it was appended), when           *)
(*       objIdx = 0 it is an object of its own with the value obj;         *)
(*   raised : an exception ended the call;                                 *)
(*   bad : the sentences of knowledge found, after a marking step, with    *)
(*       count outside 0..|cells|.                                         *)
(***************************************************************************)
Range(f) == {f[i] : i \in DOMAIN f}

\* The sentences of the list k that break the invariant of a sentence.
BadOf(k) == {s \in Range(k) : ~SentenceOK(s)}

\* mark_mine that also withdraws the cell from safes.
mark_mine_exclusive(a, cell) ==
    LET k == [i \in DOMAIN a.knowledge |-> SentenceMarkMine(a.knowledge[i], cell)]
    IN  [a EXCEPT !.mines = @ \cup {cell},
                  !.safes = @ \ {cell},
                  !.knowledge = k,
                  !.bad = @ \cup BadOf(k)]

\* MinesweeperAI.mark_mine
mark_mine(a, cell) ==
    LET k == [i \in DOMAIN a.knowledge |-> SentenceMarkMine(a.knowledge[i], cell)]
    IN  [a EXCEPT !.mines = @ \cup {cell},
                  !.knowledge = k,
                  !.bad = @ \cup BadOf(k)]

\* MinesweeperAI.mark_safe
mark_safe(a, cell) ==
    LET k == [i \in DOMAIN a.knowledge |-> SentenceMarkSafe(a.knowledge[i], cell)]
    IN  [a EXCEPT !.safes = @ \cup {cell},
                  !.knowledge = k,
                  !.bad = @ \cup BadOf(k)]

\* `for cell in cs: self.mark_mine(cell)`.  The marks of distinct cells
\* commute, so the order of Python's set iteration does not show in the
\* result.
RECURSIVE MarkMineEach(_, _)
MarkMineEach(a, cs) ==
    IF cs = {} THEN a
    ELSE LET c == CHOOSE x \in cs : TRUE
         IN  MarkMineEach(mark_mine(a, c), cs \ {c})

\* `for cell in cs: self.mark_safe(cell)`.
RECURSIVE MarkSafeEach(_, _)
MarkSafeEach(a, cs) ==
    IF cs = {} THEN a
    ELSE LET c == CHOOSE x \in cs : TRUE
         IN  MarkSafeEach(mark_safe(a, c), cs \ {c})

\* The value of the local sentence_obj.
Obj(a) == IF a.objIdx = 0 THEN a.obj ELSE a.knowledge[a.objIdx]

\* sentence_obj.mark_mine(cell) / sentence_obj.mark_safe(cell): a direct
\* update of the one object.
ObjMarkMine(a, cell) ==
    IF a.objIdx = 0
    THEN [a EXCEPT !.obj = SentenceMarkMine(@, cell)]
    ELSE [a EXCEPT !.knowledge[a.objIdx] = SentenceMarkMine(@, cell)]

ObjMarkSafe(a, cell) ==
    IF a.objIdx = 0
    THEN [a EXCEPT !.obj = SentenceMarkSafe(@, cell)]
    ELSE [a EXCEPT !.knowledge[a.objIdx] = SentenceMarkSafe(@, cell)]

\* add_knowledge, step 3: the neighbourhood of cell.  The row x is checked
\* against width and the column y against height, as the code does.
set_of_cells(h, w, cell) ==
    {c \in (((cell[1] - 1)..(cell[1] + 1)) \X ((cell[2] - 1)..(cell[2] + 1))) :
        /\ c[1] >= 0 /\ c[1] < w /\ c[2] >= 0 /\ c[2] < h
        /\ c # cell}

\* Steps 1 to 3 without the test of line 230: the sentence is appended
\* whether or not an equal one is in knowledge.
AddSentenceNoTest(a, h, w, cell, count) ==
    LET a1 == [a EXCEPT !.moves_made = @ \cup {cell}]
        a2 == mark_safe(a1, cell)
        sentence_obj == Sentence(set_of_cells(h, w, cell), count)
    IN  [a2 EXCEPT !.knowledge = Append(@, sentence_obj),
                   !.obj = sentence_obj,
                   !.objIdx = Len(a2.knowledge) + 1]

\* add_knowledge, steps 1 to 3: record the move, mark it safe, build the
\* sentence and append it unless an equal one is in knowledge.
AddSentence(a, h, w, cell, count) ==
    LET a1 == [a EXCEPT !.moves_made = @ \cup {cell}]
        a2 == mark_safe(a1, cell)
        sentence_obj == Sentence(set_of_cells(h, w, cell), count)
    IN  IF \E i \in DOMAIN a2.knowledge : SentenceEq(a2.knowledge[i], sentence_obj)
        THEN [a2 EXCEPT !.obj = sentence_obj, !.objIdx = 0]
        ELSE [a2 EXCEPT !.knowledge = Append(@, sentence_obj),
                        !.obj = sentence_obj,
                        !.objIdx = Len(a2.knowledge) + 1]

\* add_knowledge, lines 242-245: `for mine in mines_copy:
\* sentence.mark_mine(mine); self.mark_mine(mine)` with sentence =
\* knowledge[idx].
RECURSIVE Loop4Mines(_, _, _)
Loop4Mines(a, idx, cs) ==
    IF cs = {} THEN a
    ELSE LET c == CHOOSE x \in cs : TRUE
             a1 == [a EXCEPT !.knowledge[idx] = SentenceMarkMine(@, c)]
         IN  Loop4Mines(mark_mine(a1, c), idx, cs \ {c})

\* add_knowledge, lines 248-251.
RECURSIVE Loop4Safes(_, _, _)
Loop4Safes(a, idx, cs) ==
    IF cs = {} THEN a
    ELSE LET c == CHOOSE x \in cs : TRUE
             a1 == [a EXCEPT !.knowledge[idx] = SentenceMarkSafe(@, c)]
         IN  Loop4Safes(mark_safe(a1, c), idx, cs \ {c})

\* add_knowledge, lines 237-251, from the sentence at idx on.  m and s say
\* whether the locals mines and safes (lines 234-235) are not None.
\* sentence_obj.known_mines() is evaluated again for every sentence: on None
\* its .copy() raises.
RECURSIVE Loop4(_, _, _, _)
Loop4(a, idx, m, s) ==
    IF idx > Len(a.knowledge) \/ a.raised THEN a
    ELSE IF SentenceEq(a.knowledge[idx], Obj(a)) THEN Loop4(a, idx + 1, m, s)
    ELSE LET km == known_mines(Obj(a))
             a1 == IF ~m THEN a
                   ELSE IF km.none THEN [a EXCEPT !.raised = TRUE]
                   ELSE Loop4Mines(a, idx, km.cells)
             ks == known_safes(Obj(a1))
             a2 == IF ~s \/ a1.raised THEN a1
                   ELSE IF ks.none THEN [a1 EXCEPT !.raised = TRUE]
                   ELSE Loop4Safes(a1, idx, ks.cells)
         IN  Loop4(a2, idx + 1, m, s)

\* add_knowledge, lines 253-265, from the sentence at idx on.
RECURSIVE Loop253(_, _)
Loop253(a, idx) ==
    IF idx > Len(a.knowledge) \/ a.raised THEN a
    ELSE LET moves_not_made_cells == a.knowledge[idx].cells \ a.moves_made
             a1 == IF Cardinality(moves_not_made_cells) = a.knowledge[idx].count
                   THEN MarkMineEach(a, moves_not_made_cells)
                   ELSE a
             mines_in_cells == a1.knowledge[idx].cells \cap a1.mines
             possible_safe_cells == a1.knowledge[idx].cells \ mines_in_cells
             a2 == IF a1.knowledge[idx].count = Cardinality(mines_in_cells)
                   THEN MarkSafeEach(a1, possible_safe_cells)
                   ELSE a1
         IN  Loop253(a2, idx + 1)

\* add_knowledge, lines 282-290: every new_sentence is built and dropped;
\* nothing is appended and no field changes.
Loop282(a) == a

\* add_knowledge, lines 301-304: `for mine in mines_copy:
\* sentence_obj.mark_mine(mine); self.mark_mine(mine)`.
RECURSIVE FinalMines(_, _)
FinalMines(a, cs) ==
    IF cs = {} THEN a
    ELSE LET c == CHOOSE x \in cs : TRUE
         IN  FinalMines(mark_mine(ObjMarkMine(a, c), c), cs \ {c})

\* add_knowledge, lines 307-310.
RECURSIVE FinalSafes(_, _)
FinalSafes(a, cs) ==
    IF cs = {} THEN a
    ELSE LET c == CHOOSE x \in cs : TRUE
         IN  FinalSafes(mark_safe(ObjMarkSafe(a, c), c), cs \ {c})

\* Lines 299-310 without the block of lines 305-310 (the safes).
FinalMinesOnly(a, m, s) ==
    IF a.raised THEN a
    ELSE IF m.none THEN a ELSE FinalMines(a, m.cells)

\* add_knowledge, lines 299-310, with the locals mines and safes of lines
\* 234-235.
Final(a, m, s) ==
    IF a.raised THEN a
    ELSE LET a1 == IF m.none THEN a ELSE FinalMines(a, m.cells)
         IN  IF s.none THEN a1 ELSE FinalSafes(a1, s.cells)

\* MinesweeperAI.add_knowledge(cell, count) on a board of h rows and w
\* columns.
add_knowledge(a, h, w, cell, count) ==
    LET a3 == AddSentence(a, h, w, cell, count)
        m == known_mines(Obj(a3))
        s == known_safes(Obj(a3))
        a4 == Loop4(a3, 1, ~m.none, ~s.none)
        a5 == Loop253(a4, 1)
        a6 == Loop282(a5)
    IN  Final(a6, m, s)

\* make_safe_move without the test `cell not in self.moves_made`.
make_safe_move_any_safe(sf, mm) ==
    IF sf # {} THEN {<<c>> : c \in sf} ELSE {<<>>}

\* MinesweeperAI.make_safe_move: the cells it may return (the first cell of
\* safes, in Python's set order, that is not in moves_made), or None (<<>>).
make_safe_move(sf, mm) ==
    IF \E c \in sf : c \notin mm
    THEN {<<c>> : c \in {x \in sf : x \notin mm}}
    ELSE {<<>>}

\* make_random_move without `.difference(self.mines)`.
make_random_move_with_mines(h, w, mn, mm) ==
    LET possible_moves == AllCells(h, w) \ mm
    IN  IF Cardinality(possible_moves) # 0
        THEN {<<c>> : c \in possible_moves}
        ELSE {<<>>}

\* MinesweeperAI.make_random_move: random.choice over all_cells - mines -
\* moves_made, or None (<<>>).
make_random_move(h, w, mn, mm) ==
    LET possible_moves == (AllCells(h, w) \ mn) \ mm
    IN  IF Cardinality(possible_moves) # 0
        THEN {<<c>> : c \in possible_moves}
        ELSE {<<>>}

(***************************************************************************)
(* The state machine.                                                      *)
(***************************************************************************)
\* The agent's fields as the record the operators above work on.
Agent == [moves_made |-> moves_made, safes |-> safes, mines |-> mines,
          knowledge |-> knowledge, obj |-> Sentence({}, 0), objIdx |-> 0,
          raised |-> FALSE, bad |-> {}]

NoCell == <<>>
NoCall == [op |-> "init", cell |-> NoCell, count |-> 0, ret |-> <<>>, raised |-> FALSE]

\* MinesweeperAI.__init__ on a board of one of the shapes, with its mines laid.
InitOn(shapes) ==
    /\ \E sh \in shapes : height = sh[1] /\ width = sh[2]
    /\ board \in {b \in SUBSET AllCells(height, width) : Cardinality(b) <= MaxMines}
    /\ moves_made = {}
    /\ safes = {}
    /\ mines = {}
    /\ knowledge = <<>>
    /\ last = NoCall
    /\ bad = {}
    /\ calls = 0

Init == InitOn(SquareShapes)

\* The agent's fields after a call that left the record a.
Store(a, op, cell, count) ==
    /\ moves_made' = a.moves_made
    /\ safes' = a.safes
    /\ mines' = a.mines
    /\ knowledge' = a.knowledge
    /\ bad' = a.bad
    /\ last' = [op |-> op, cell |-> <<cell>>, count |-> count, ret |-> <<>>,
                raised |-> a.raised]
    /\ calls' = calls + 1
    /\ UNCHANGED <<height, width, board>>

\* Truthful play: add_knowledge(cell, nearby_mines(cell)) for a cell of the
\* board that is no mine and was not probed.
AddKnowledge ==
    /\ calls < MaxProbes
    /\ \E cell \in AllCells(height, width) :
          /\ ~is_mine(board, cell)
          /\ cell \notin moves_made
          /\ LET count == nearby_mines(board, height, width, cell)
             IN  Store(add_knowledge(Agent, height, width, cell, count),
                       "add_knowledge", cell, count)

\* make_safe_move(): reads the agent's fields and returns.
MakeSafeMove ==
    /\ \E r \in make_safe_move(safes, moves_made) :
          last' = [op |-> "make_safe_move", cell |-> NoCell, count |-> 0, ret |-> r,
                   raised |-> FALSE]
    /\ UNCHANGED <<height, width, board, moves_made, safes, mines, knowledge, bad, calls>>

\* make_random_move(): reads the agent's fields and returns.
MakeRandomMove ==
    /\ \E r \in make_random_move(height, width, mines, moves_made) :
          last' = [op |-> "make_random_move", cell |-> NoCell, count |-> 0, ret |-> r,
                   raised |-> FALSE]
    /\ UNCHANGED <<height, width, board, moves_made, safes, mines, knowledge, bad, calls>>

Next == AddKnowledge \/ MakeSafeMove \/ MakeRandomMove

Spec == Init /\ [][Next]_vars

(***************************************************************************)
(* Arbitrary calls: add_knowledge with any cell of the board and any       *)
(* count, and the public mark_mine and mark_safe, from a fresh agent.      *)
(***************************************************************************)
\* The counts tried for a cell: from one below 0 to one above the size of
\* its neighbourhood.
AnyCounts(cell) == (-1)..(Cardinality(set_of_cells(height, width, cell)) + 1)

InitAny == InitOn(AnyShapes) /\ board = {}

AddKnowledgeAny ==
    /\ calls < MaxCalls
    /\ \E cell \in AllCells(height, width) : \E count \in AnyCounts(cell) :
          Store(add_knowledge(Agent, height, width, cell, count),
                "add_knowledge", cell, count)

MarkMine ==
    /\ calls < MaxCalls
    /\ \E cell \in AllCells(height, width) :
          Store(mark_mine(Agent, cell), "mark_mine", cell, 0)

MarkSafe ==
    /\ calls < MaxCalls
    /\ \E cell \in AllCells(height, width) :
          Store(mark_safe(Agent, cell), "mark_safe", cell, 0)

NextAny == AddKnowledgeAny \/ MarkMine \/ MarkSafe

SpecAny == InitAny /\ [][NextAny]_vars

(***************************************************************************)
(* Truthful play in which a cell may be probed again: add_knowledge for a  *)
(* cell already in moves_made, with its true count.                        *)
(***************************************************************************)
Reprobe ==
    /\ calls < MaxProbes
    /\ \E cell \in moves_made :
          LET count == nearby_mines(board, height, width, cell)
          IN  Store(add_knowledge(Agent, height, width, cell, count),
                    "add_knowledge", cell, count)

NextReprobe == AddKnowledge \/ Reprobe

SpecReprobe == Init /\ [][NextReprobe]_vars


(***************************************************************************)
(* Truthful play on a board that is not square.                            *)
(***************************************************************************)
InitRect == InitOn(RectShapes)

SpecRect == InitRect /\ [][AddKnowledge]_vars

(***************************************************************************)
(* The marking primitives on their own: knowledge starts with any          *)
(* sentences Sentence(cells, count), cells on a 2x2 board and              *)
(* 0 <= count <= |cells|, and mark_mine and mark_safe are called with any  *)
(* cell.                                                                   *)
(***************************************************************************)
\* Sentence(cells, count) for every cell set of the board and every count
\* that keeps the invariant of a sentence.
ValidSentences(h, w) ==
    UNION {{Sentence(cs, n) : n \in 0..Cardinality(cs)} : cs \in SUBSET AllCells(h, w)}

\* The sequences of 1 to n elements of S.
RECURSIVE SeqsUpTo(_, _)
SeqsUpTo(S, n) ==
    IF n = 0 THEN {}
    ELSE {<<x>> : x \in S} \cup {Append(q, x) : q \in SeqsUpTo(S, n - 1), x \in S}

InitMarks ==
    /\ height = 2 /\ width = 2
    /\ board = {}
    /\ moves_made = {}
    /\ safes = {}
    /\ mines = {}
    /\ knowledge \in SeqsUpTo(ValidSentences(height, width), MaxSentences)
    /\ last = NoCall
    /\ bad = {}
    /\ calls = 0

NextMarks == MarkMine \/ MarkSafe

SpecMarks == InitMarks /\ [][NextMarks]_vars

(***************************************************************************)
(* The controller loop: each round asks make_safe_move(), then             *)
(* make_random_move() if that returned None, reveals the picked cell and,  *)
(* if it is no mine, calls add_knowledge with its true count.  last.op is  *)
(* the loop's position; "lost" and "no_moves" are its two ends.            *)
(***************************************************************************)
\* The loop's position is the start of a round.
RoundStart == last.op \in {"init", "add_knowledge"}

\* A selector has returned a cell that was not yet revealed.
Picked == last.op \in {"make_safe_move", "make_random_move"} /\ last.ret # <<>>

\* The loop has ended.
Ended == last.op \in {"lost", "no_moves"}

\* A round begins: move = ai.make_safe_move().
PlaySafeMove ==
    /\ RoundStart
    /\ MakeSafeMove

\* make_safe_move() returned None: move = ai.make_random_move().
PlayRandomMove ==
    /\ last.op = "make_safe_move"
    /\ last.ret = <<>>
    /\ MakeRandomMove

\* The picked cell is no mine: ai.add_knowledge(move, game.nearby_mines(move)).
PlayProbe ==
    /\ Picked
    /\ ~is_mine(board, last.ret[1])
    /\ LET cell == last.ret[1]
           count == nearby_mines(board, height, width, cell)
       IN  Store(add_knowledge(Agent, height, width, cell, count),
                 "add_knowledge", cell, count)

\* The picked cell is a mine: the game is lost and the loop ends.
PlayHitMine ==
    /\ Picked
    /\ is_mine(board, last.ret[1])
    /\ last' = [op |-> "lost", cell |-> last.ret, count |-> 0, ret |-> <<>>,
                raised |-> FALSE]
    /\ UNCHANGED <<height, width, board, moves_made, safes, mines, knowledge, bad, calls>>

\* Both selectors returned None: no move is left and the loop ends.
PlayNoMoves ==
    /\ last.op = "make_random_move"
    /\ last.ret = <<>>
    /\ last' = [op |-> "no_moves", cell |-> NoCell, count |-> 0, ret |-> <<>>,
                raised |-> FALSE]
    /\ UNCHANGED <<height, width, board, moves_made, safes, mines, knowledge, bad, calls>>

NextPlay == PlaySafeMove \/ PlayRandomMove \/ PlayProbe \/ PlayHitMine \/ PlayNoMoves

\* What PlayProbe does to last: the call of add_knowledge returns, normally
\* or by an exception, and the loop's position moves on.
ProbeReturns ==
    /\ Picked
    /\ ~is_mine(board, last.ret[1])
    /\ \E r \in BOOLEAN :
          last' = [op |-> "add_knowledge", cell |-> last.ret,
                   count |-> nearby_mines(board, height, width, last.ret[1]),
                   ret |-> <<>>, raised |-> r]

\* The loop is single-threaded and no call blocks: while the loop has not
\* ended its next step is taken.  Every step of NextPlay changes last, and
\* the steps of PlayProbe are the steps of NextPlay that satisfy
\* ProbeReturns, so the two conditions together are weak fairness of
\* NextPlay.
SpecPlay ==
    /\ Init
    /\ [][NextPlay]_vars
    /\ WF_last(PlaySafeMove \/ PlayRandomMove \/ PlayHitMine \/ PlayNoMoves)
    /\ WF_last(ProbeReturns)

(***************************************************************************)
(* Properties.                                                             *)
(***************************************************************************)
\* The cell and the neighbourhood of the last call.
LastCell == last.cell[1]
LastNeighbours == nearby_cells(height, width, LastCell)

\* C1 (soundness): in truthful play on a square board every cell of mines
\* is a true mine and no cell of safes is a true mine.
C1_Soundness == mines \subseteq board /\ safes \cap board = {}

\* A probe from which the agent concluded a mine, with a safe cell left to
\* probe.
C1_Witness ==
    /\ last.op = "add_knowledge"
    /\ mines # {}
    /\ safes \ moves_made # {}

\* C2: in truthful play on a square board safes and mines are disjoint.
C2_Disjoint == safes \cap mines = {}

\* After two probes both sets hold a cell that is not merely the probed one.
C2_Witness ==
    /\ calls >= 2
    /\ Cardinality(mines) >= 2
    /\ Cardinality(safes \ moves_made) >= 2

\* C3: in truthful play on a square board every sentence of knowledge has
\* 0 <= count <= |cells|, after the call and after each mark_mine /
\* mark_safe step within it.
C3_SentenceInvariant ==
    /\ bad = {}
    /\ \A i \in DOMAIN knowledge : SentenceOK(knowledge[i])

\* A sentence that still holds cells and a positive count after a probe
\* that marked mines and safes in it.
C3_Witness ==
    /\ last.op = "add_knowledge"
    /\ mines # {}
    /\ \E i \in DOMAIN knowledge :
          /\ knowledge[i].count > 0
          /\ Cardinality(knowledge[i].cells) > knowledge[i].count

\* C4 (monotonicity): no call of add_knowledge, mark_mine or mark_safe,
\* with any arguments, removes a cell from moves_made, safes or mines.
C4_Monotone ==
    [][/\ moves_made \subseteq moves_made'
       /\ safes \subseteq safes'
       /\ mines \subseteq mines']_vars

\* mark_mine was called, after an add_knowledge, for a cell that is in safes:
\* the cell is then in both sets.
C4_Witness ==
    /\ last.op = "mark_mine"
    /\ LastCell \in safes
    /\ LastCell \in mines
    /\ moves_made # {}

\* C5: make_safe_move returns a cell of safes \ moves_made when there is
\* one and None exactly when there is none, and changes no field.
C5_SafeMove ==
    /\ [](last.op = "make_safe_move" =>
            IF safes \ moves_made # {}
            THEN last.ret # <<>> /\ last.ret[1] \in safes \ moves_made
            ELSE last.ret = <<>>)
    /\ [][last'.op = "make_safe_move" => UNCHANGED agent]_vars

\* make_safe_move returned a cell while other safe cells were already
\* probed.
C5_Witness ==
    /\ last.op = "make_safe_move"
    /\ last.ret # <<>>
    /\ Cardinality(safes \cap moves_made) >= 2

\* C6: make_random_move returns a cell of the board that is neither in
\* mines nor in moves_made when there is one and None exactly when there is
\* none, and changes no field.
C6_RandomMove ==
    /\ [](last.op = "make_random_move" =>
            LET free == (AllCells(height, width) \ mines) \ moves_made
            IN  IF free # {}
                THEN last.ret # <<>> /\ last.ret[1] \in free
                ELSE last.ret = <<>>)
    /\ [][last'.op = "make_random_move" => UNCHANGED agent]_vars

\* make_random_move returned None on a board whose cells are all probed or
\* known mines, some of each.
C6_Witness ==
    /\ last.op = "make_random_move"
    /\ last.ret = <<>>
    /\ mines # {}
    /\ moves_made # {}

\* C7: after add_knowledge(cell, 0) on a square board every in-bounds
\* neighbour of cell is in safes, and cell is in safes and in moves_made.
C7_ZeroCount ==
    (last.op = "add_knowledge" /\ last.count = 0) =>
        /\ LastNeighbours \subseteq safes
        /\ LastCell \in safes
        /\ LastCell \in moves_made

\* add_knowledge(cell, 0) returned where a neighbour of cell was already
\* held as a mine.
C7_Witness ==
    /\ last.op = "add_knowledge"
    /\ last.count = 0
    /\ LastNeighbours \cap mines # {}
    /\ LastNeighbours \subseteq safes

\* C8: after add_knowledge(cell, count) on a square board with count the
\* number of in-bounds neighbours of cell, every such neighbour is in mines.
C8_FullCount ==
    (last.op = "add_knowledge" /\ last.count = Cardinality(LastNeighbours)) =>
        LastNeighbours \subseteq mines

\* Such a call returned where knowledge held another sentence and a
\* neighbour of cell was probed before.
C8_Witness ==
    /\ last.op = "add_knowledge"
    /\ last.count = Cardinality(LastNeighbours)
    /\ Len(knowledge) >= 2
    /\ LastNeighbours \cap moves_made # {}
    /\ LastNeighbours \subseteq mines

\* C9: add_knowledge(cell, count) with count < 0 or count above the number
\* of in-bounds neighbours of cell is rejected: it signals an error and
\* leaves moves_made, safes, mines and knowledge as they were.
C9_MalformedRejected ==
    [][(/\ calls' = calls + 1
        /\ last'.op = "add_knowledge"
        /\ \/ last'.count < 0
           \/ last'.count > Cardinality(nearby_cells(height, width, last'.cell[1])))
       => (last'.raised /\ UNCHANGED agent)]_vars

\* C10: in truthful play on a square board add_knowledge for a cell that is
\* already in moves_made, with its true count, leaves moves_made, safes,
\* mines and knowledge as they were.
C10_ReprobeNoOp ==
    [][(/\ calls' = calls + 1
        /\ last'.op = "add_knowledge"
        /\ last'.cell[1] \in moves_made)
       => UNCHANGED agent]_vars

\* C11: for every board, square or not, and every cell of it, the cell set
\* of the sentence add_knowledge builds is the set of the in-bounds cells
\* within one row and column of the cell, the cell itself left out: the
\* cells nearby_mines counts over.
C11_Neighbourhood ==
    last.op = "add_knowledge" =>
        set_of_cells(height, width, LastCell) = nearby_cells(height, width, LastCell)

\* C12: in truthful play on a square board, when add_knowledge returns no
\* sentence of knowledge still yields a conclusion that was not applied:
\* none with count = |cells| holds a cell that is not in mines, none with
\* count = 0 holds a cell that is not in safes.
C12_DirectClosure ==
    last.op = "add_knowledge" =>
        \A i \in DOMAIN knowledge :
            /\ knowledge[i].count = Cardinality(knowledge[i].cells)
                  => knowledge[i].cells \subseteq mines
            /\ knowledge[i].count = 0
                  => knowledge[i].cells \subseteq safes

\* C13: in truthful play on a square board, when add_knowledge returns no
\* sentence of knowledge holds a cell that is in safes or in mines.
C13_NoResolvedCell ==
    last.op = "add_knowledge" =>
        \A i \in DOMAIN knowledge :
            knowledge[i].cells \cap (safes \cup mines) = {}

\* The sentence subset resolution derives from a in b (lines 288-290).
Derived(a, b) == Sentence(b.cells \ a.cells, b.count - a.count)

\* C14: when add_knowledge returns, for every pair of distinct sentences A, B
\* of knowledge with A.cells a subset of B.cells and B.cells - A.cells not
\* empty, the sentence (B.cells - A.cells, B.count - A.count) was added and
\* its direct conclusions were applied: its cells are in safes when its
\* count is 0, in mines when its count is their number, and otherwise a
\* sentence equal to it is in knowledge.
C14_SubsetResolution ==
    last.op = "add_knowledge" =>
        \A i, j \in DOMAIN knowledge :
            (/\ i # j
             /\ ~SentenceEq(knowledge[i], knowledge[j])
             /\ knowledge[i].cells \subseteq knowledge[j].cells
             /\ knowledge[j].cells \ knowledge[i].cells # {})
            => LET d == Derived(knowledge[i], knowledge[j])
               IN  /\ d.count = 0 => d.cells \subseteq safes
                   /\ d.count = Cardinality(d.cells) => d.cells \subseteq mines
                   /\ (d.count # 0 /\ d.count # Cardinality(d.cells))
                         => \E k \in DOMAIN knowledge : SentenceEq(knowledge[k], d)

\* C15: MinesweeperAI.mark_mine(c) applied twice leaves the same mines and
\* the same sentences as applied once, and likewise mark_safe(c) with safes:
\* a second call with the same cell changes nothing, in every state and for
\* every cell.
C15_MarkIdempotent ==
    /\ [](\A c \in AllCells(height, width) :
            /\ LET a1 == mark_mine(Agent, c)
                   a2 == mark_mine(a1, c)
               IN  a2.mines = a1.mines /\ a2.knowledge = a1.knowledge
            /\ LET a1 == mark_safe(Agent, c)
                   a2 == mark_safe(a1, c)
               IN  a2.safes = a1.safes /\ a2.knowledge = a1.knowledge)
    /\ [][(/\ calls' = calls + 1
            /\ last.op \in {"mark_mine", "mark_safe"}
            /\ last'.op = last.op
            /\ last'.cell = last.cell)
           => UNCHANGED agent]_vars

\* mark_mine was called twice with the same cell, which a sentence of
\* knowledge held: the count went down by one, not by two.
C15_Witness ==
    /\ calls = 2
    /\ last.op = "mark_mine"
    /\ mines = {LastCell}
    /\ safes = {}
    /\ knowledge = <<Sentence(AllCells(height, width) \ {LastCell}, 0)>>

\* What Sentence.mark_mine(cell) does to the sentence s, giving t: when
\* cell is in s.cells it is removed and count goes down by exactly 1,
\* otherwise cells and count are unchanged.
MarkMineEffect(s, t, cell) ==
    IF cell \in s.cells
    THEN t.cells = s.cells \ {cell} /\ t.count = s.count - 1
    ELSE t = s

\* A step in which mark_mine is called.
MarkMineStep == calls' = calls + 1 /\ last'.op = "mark_mine"

\* C16, as claimed: Sentence.mark_mine(cell) on a sentence with
\* 0 <= count <= |cells| removes cell and decrements count by 1 when cell
\* is in cells, changes nothing otherwise, and in both cases leaves
\* 0 <= count <= |cells|.
C16_MarkMineKeepsInvariant ==
    [][MarkMineStep =>
         \A i \in DOMAIN knowledge :
             SentenceOK(knowledge[i]) =>
                 /\ MarkMineEffect(knowledge[i], knowledge'[i], last'.cell[1])
                 /\ SentenceOK(knowledge'[i])]_vars

\* C16, amended: the same effect; afterwards count <= |cells| holds, and
\* 0 <= count holds unless cell was in cells with count 0, where count
\* becomes -1.
C16_MarkMineEffect ==
    [][MarkMineStep =>
         \A i \in DOMAIN knowledge :
             SentenceOK(knowledge[i]) =>
                 /\ MarkMineEffect(knowledge[i], knowledge'[i], last'.cell[1])
                 /\ knowledge'[i].count <= Cardinality(knowledge'[i].cells)
                 /\ IF last'.cell[1] \in knowledge[i].cells /\ knowledge[i].count = 0
                    THEN knowledge'[i].count = -1
                    ELSE 0 <= knowledge'[i].count]_vars

\* mark_mine was called for a cell of a sentence with count 0 that held
\* other cells too: its count is -1.
C16_Witness ==
    /\ calls = 1
    /\ last.op = "mark_mine"
    /\ knowledge[1].count = -1
    /\ knowledge[1].cells # {}
    /\ LastCell \notin knowledge[1].cells

C18_PlayTerminates ==
    /\ [](Picked => last.ret[1] \notin moves_made)
    /\ [][last'.op = "add_knowledge" =>
            /\ Picked
            /\ moves_made' = moves_made \cup {last.ret[1]}
            /\ Cardinality(moves_made') = Cardinality(moves_made) + 1
            /\ calls' = calls + 1]_vars
    /\ [][last'.op # "add_knowledge" => moves_made' = moves_made]_vars
    /\ [](calls = Cardinality(moves_made))
    /\ [](~last.raised)
    /\ [](calls + (IF last.op = "lost" THEN 1 ELSE 0) <= height * width)
    /\ <>[]Ended

\* A game on a 3x3 board with mines that ended with every cell that is no
\* mine probed and both selectors returning None.
C18_Witness ==
    /\ last.op = "no_moves"
    /\ height = 3
    /\ board # {}
    /\ moves_made = AllCells(height, width) \ board
    /\ calls = height * width - Cardinality(board)

=============================================================================
